---- MODULE Spec2Model ----
(***************************************************************************)
(* Discovery-and-caching pipeline of llm-discovery:                        *)
(*   DiscoveryService.fetch_all_models  (services/discovery.py)            *)
(*   CacheService.save_cache/load_cache (services/cache.py)                *)
(*   update_command / list_command      (cli/commands)                     *)
(* Python values that reach the TOML cache file are modelled as tagged     *)
(* records, exceptions as their class names.                               *)
(***************************************************************************)
EXTENDS Integers, Sequences, FiniteSets, TLC

VARIABLES config, now, file, pc, ticks, results, completed, last,
          loaded, hist

vars == <<config, now, file, pc, ticks, results, completed, last,
          loaded, hist>>

----------------------------------------------------------------------------
(* Bounds *)

\* the clock runs over 0..MaxTime ticks
MaxTime == 2
\* ticks per second: a time that is a whole second has no fractional part
TicksPerSecond == 2

----------------------------------------------------------------------------
(* Python values and exceptions *)

EmptyMap == [k \in {} |-> 0]

None == [t |-> "None"]
Str(s) == [t |-> "str", v |-> s]
IsoStr(q) == [t |-> "str", iso |-> q]
IntV(n) == [t |-> "int", n |-> n]
Datetime(q) == [t |-> "datetime", iso |-> q]
Table(f) == [t |-> "table", kv |-> f]
Array(s) == [t |-> "array", items |-> s]

Ok(v) == [exc |-> "none", val |-> v]
Raise(e) == [exc |-> e]

\* class hierarchy of the exceptions that occur
Parent(e) ==
  CASE e = "TOMLDecodeError" -> "ValueError"
    [] e = "UnicodeDecodeError" -> "ValueError"
    [] e = "ValidationError" -> "ValueError"
    [] e = "PermissionError" -> "OSError"
    [] OTHER -> "Exception"

\* an `except (classes)` clause catches e
Catches(classes, e) == e \in classes \/ Parent(e) \in classes

\* v[k]
GetItem(v, k) ==
  IF v.t = "table"
    THEN IF k \in DOMAIN v.kv THEN Ok(v.kv[k]) ELSE Raise("KeyError")
    ELSE Raise("TypeError")

\* v.get(k, default)
Get(v, k, default) ==
  IF v.t = "table"
    THEN Ok(IF k \in DOMAIN v.kv THEN v.kv[k] ELSE default)
    ELSE Raise("AttributeError")

RECURSIVE SetToSeq(_)
SetToSeq(S) ==
  IF S = {} THEN <<>>
  ELSE LET x == CHOOSE y \in S : TRUE
       IN <<x>> \o SetToSeq(S \ {x})

\* the characters of a text string, each a str
Chars(s) ==
  IF "v" \in DOMAIN s THEN [i \in 1..Len(s.v) |-> Str(SubSeq(s.v, i, i))]
  ELSE [i \in 1..Len(s.iso) |-> Str("0")]

\* for x in v
Iter(v) ==
  CASE v.t = "array" -> Ok(v.items)
    [] v.t = "table" -> Ok(LET ks == SetToSeq(DOMAIN v.kv)
                           IN [i \in 1..Len(ks) |-> Str(ks[i])])
    [] v.t = "str" -> Ok(Chars(v))
    [] OTHER -> Raise("TypeError")

\* the first exception of a sequence of evaluation steps, "none" if none
FirstExc(steps) ==
  IF \E i \in 1..Len(steps) : steps[i].exc # "none"
    THEN steps[CHOOSE i \in 1..Len(steps) :
                 /\ steps[i].exc # "none"
                 /\ \A j \in 1..(i-1) : steps[j].exc = "none"].exc
    ELSE "none"

----------------------------------------------------------------------------
(* datetime <-> ISO-8601 text *)

\* datetime.isoformat(): the fraction is omitted when it is zero
isoformat(t) ==
  IF t % TicksPerSecond = 0
    THEN <<t \div TicksPerSecond>>
    ELSE <<t \div TicksPerSecond, t % TicksPerSecond>>

\* datetime.fromisoformat(r) of the value of a previous step
fromisoformat(r) ==
  IF r.exc # "none" THEN r
  ELSE IF r.val.t # "str" THEN Raise("TypeError")
  ELSE IF "iso" \notin DOMAIN r.val THEN Raise("ValueError")
  ELSE IF Len(r.val.iso) = 1 THEN Ok(r.val.iso[1] * TicksPerSecond)
  ELSE IF Len(r.val.iso) = 2
         THEN Ok(r.val.iso[1] * TicksPerSecond + r.val.iso[2])
  ELSE Raise("ValueError")

----------------------------------------------------------------------------
(* The cache file: models_cache.toml in the cache directory *)

CacheFile == "models_cache.toml"
TOML_CACHE_VERSION == 1

Absent == [state |-> "absent"]
Unparsable(e) == [state |-> "present", parse |-> e]
Parsed(d) == [state |-> "present", parse |-> "ok", doc |-> d]

\* open(cache_file, "rb") and tomllib.load(f); io is the outcome of the read
tomllib_load(f, io) ==
  IF io # "ok" THEN Raise(io)
  ELSE IF f.parse # "ok" THEN Raise(f.parse)
  ELSE Ok(f.doc)

\* r[k] of the value of a previous step
Sub(r, k) == IF r.exc # "none" THEN r ELSE GetItem(r.val, k)

\* body of the try block of save_cache
ReadCreatedAt(f, io) ==
  fromisoformat(Sub(Sub(tomllib_load(f, io), "metadata"), "created_at"))

\* the except clause of save_cache applied to the outcome r of the try block
FallBackToNow(r, t) ==
  IF r.exc = "none" THEN r
  ELSE IF Catches({"TOMLDecodeError", "KeyError", "ValueError"}, r.exc)
         THEN Ok(t)
  ELSE r

\* RecoverCreatedAt without the read of the existing file
RecoverCreatedAtAlwaysNow(f, t, io) == Ok(t)

\* created_at of the cache that save_cache is about to write at time t
RecoverCreatedAt(f, t, io) ==
  IF f.state = "absent" THEN Ok(t)
  ELSE FallBackToNow(ReadCreatedAt(f, io), t)

ModelToDict(m) ==
  Table([model_id |-> Str(m.model_id),
         model_name |-> Str(m.model_name),
         provider_name |-> Str(m.provider_name),
         source |-> Str(m.source),
         fetched_at |-> IsoStr(isoformat(m.fetched_at)),
         metadata |-> Table(m.metadata)])

\* p.error_message or ""
ErrorMessageOrEmpty(p) ==
  IF p.error_message = None \/ p.error_message = Str("")
    THEN Str("") ELSE p.error_message

ProviderToDict(p) ==
  Table([provider_name |-> Str(p.provider_name),
         fetch_status |-> Str(p.fetch_status),
         fetched_at |-> IsoStr(isoformat(p.fetched_at)),
         error_message |-> ErrorMessageOrEmpty(p),
         models |-> Array([i \in 1..Len(p.models) |-> ModelToDict(p.models[i])])])

\* cache_dict with the two timestamps of the metadata exchanged
cache_dictSwapped(created_at, last_updated, providers) ==
  Table([metadata |-> Table([version |-> IntV(TOML_CACHE_VERSION),
                             created_at |-> IsoStr(isoformat(last_updated)),
                             last_updated |-> IsoStr(isoformat(created_at))]),
         providers |-> Array([i \in 1..Len(providers) |->
                                ProviderToDict(providers[i])])])

cache_dict(created_at, last_updated, providers) ==
  Table([metadata |-> Table([version |-> IntV(TOML_CACHE_VERSION),
                             created_at |-> IsoStr(isoformat(created_at)),
                             last_updated |-> IsoStr(isoformat(last_updated))]),
         providers |-> Array([i \in 1..Len(providers) |->
                                ProviderToDict(providers[i])])])

\* outcomes of open(cache_file, "wb") and tomli_w.dump: the write completes,
\* open is denied, or the dump is interrupted after open has truncated the
\* file, with nothing, with the metadata table or with a cut line written
WriteOutcomes == {"ok", "denied", "empty", "partial", "cut"}

\* the file an interrupted dump of document d leaves
Interrupted(d, wr) ==
  CASE wr = "empty" -> Parsed(Table(EmptyMap))
    [] wr = "partial" -> Parsed(Table([metadata |-> d.kv.metadata]))
    [] OTHER -> Unparsable("TOMLDecodeError")

\* the provider entries of the cache file f, none if it has no such list
OldEntries(f) ==
  IF /\ f.state = "present"
     /\ f.parse = "ok"
     /\ "providers" \in DOMAIN f.doc.kv
     /\ f.doc.kv.providers.t = "array"
    THEN f.doc.kv.providers.items
    ELSE <<>>

\* WriteCache if it appended the new entries to those of the existing file
WriteCacheMerging(c, f, providers, t, wr) ==
  IF c.exc # "none" THEN [exc |-> c.exc, file |-> f]
  ELSE IF wr = "denied" THEN [exc |-> "PermissionError", file |-> f]
  ELSE IF wr = "ok"
         THEN [exc |-> "none",
               file |-> Parsed(Table(
                 [metadata |-> cache_dict(c.val, t, providers).kv.metadata,
                  providers |->
                    Array(cache_dict(c.val, t, providers).kv.providers.items
                          \o OldEntries(f))]))]
  ELSE [exc |-> "OSError",
        file |-> Interrupted(cache_dict(c.val, t, providers), wr)]

\* the rest of save_cache once created_at is c: the exception raised ("none"
\* if it returns) and the file it leaves
WriteCache(c, f, providers, t, wr) ==
  IF c.exc # "none" THEN [exc |-> c.exc, file |-> f]
  ELSE IF wr = "denied" THEN [exc |-> "PermissionError", file |-> f]
  ELSE IF wr = "ok"
         THEN [exc |-> "none", file |-> Parsed(cache_dict(c.val, t, providers))]
  ELSE [exc |-> "OSError",
        file |-> Interrupted(cache_dict(c.val, t, providers), wr)]

\* CacheService.save_cache(providers) at time t
save_cache(f, providers, t, io, wr) ==
  WriteCache(RecoverCreatedAt(f, t, io), f, providers, t, wr)

\* ModelSource(x) / FetchStatus(x): the enum member with value x
EnumOf(values, r) ==
  IF r.exc # "none" THEN r
  ELSE IF r.val.t = "str" /\ "v" \in DOMAIN r.val /\ r.val.v \in values
         THEN Ok(r.val.v)
  ELSE Raise("ValueError")

ModelSource(r) == EnumOf({"api", "manual"}, r)
FetchStatus(r) == EnumOf({"success", "failure"}, r)

\* the text of a str value
PyText(v) == IF "v" \in DOMAIN v THEN v.v ELSE "iso"

\* the values of a loop whose iterations gave rs: the first exception aborts
Collect(rs) ==
  IF FirstExc(rs) # "none" THEN Raise(FirstExc(rs))
  ELSE Ok([i \in 1..Len(rs) |-> rs[i].val])

\* Model(...) from the evaluated keyword arguments: pydantic rejects a field
\* of the wrong type with a ValidationError
BuildModel(steps) ==
  IF FirstExc(steps) # "none" THEN Raise(FirstExc(steps))
  ELSE IF \/ \E i \in 1..3 : steps[i].val.t # "str"
          \/ steps[6].val.t # "table"
         THEN Raise("ValidationError")
  ELSE Ok([model_id |-> PyText(steps[1].val),
           model_name |-> PyText(steps[2].val),
           provider_name |-> PyText(steps[3].val),
           source |-> steps[4].val,
           fetched_at |-> steps[5].val,
           metadata |-> steps[6].val.kv])

\* Model(model_id=model_data["model_id"], ...)
LoadModel(md) ==
  BuildModel(<<GetItem(md, "model_id"),
               GetItem(md, "model_name"),
               GetItem(md, "provider_name"),
               ModelSource(GetItem(md, "source")),
               fromisoformat(GetItem(md, "fetched_at")),
               Get(md, "metadata", Table(EmptyMap))>>)

\* for x in r, of the value r of a previous step
IterOf(r) == IF r.exc # "none" THEN r ELSE Iter(r.val)

\* the loop over provider_data.get("models", [])
LoadModels(it) ==
  IF it.exc # "none" THEN it
  ELSE Collect([i \in 1..Len(it.val) |-> LoadModel(it.val[i])])

\* ProviderSnapshot(...) from the loaded models and the evaluated keyword
\* arguments
BuildProvider(models, steps) ==
  IF models.exc # "none" THEN models
  ELSE IF FirstExc(steps) # "none" THEN Raise(FirstExc(steps))
  ELSE IF \/ steps[1].val.t # "str"
          \/ steps[4].val.t \notin {"str", "None"}
         THEN Raise("ValidationError")
  ELSE Ok([provider_name |-> PyText(steps[1].val),
           models |-> models.val,
           fetch_status |-> steps[2].val,
           fetched_at |-> steps[3].val,
           error_message |-> steps[4].val])

\* one iteration of the loop over cache_dict.get("providers", [])
LoadProvider(pd) ==
  BuildProvider(LoadModels(IterOf(Get(pd, "models", Array(<<>>)))),
                <<GetItem(pd, "provider_name"),
                  FetchStatus(GetItem(pd, "fetch_status")),
                  fromisoformat(GetItem(pd, "fetched_at")),
                  Get(pd, "error_message", None)>>)

\* the loop over cache_dict.get("providers", [])
LoadProviders(it) ==
  IF it.exc # "none" THEN it
  ELSE Collect([i \in 1..Len(it.val) |-> LoadProvider(it.val[i])])

\* r.get(k, default) of the value r of a previous step
GetOf(r, k, default) == IF r.exc # "none" THEN r ELSE Get(r.val, k, default)

\* body of the try block of load_cache
LoadBody(f, io) ==
  LoadProviders(IterOf(GetOf(tomllib_load(f, io), "providers", Array(<<>>))))

\* TranslateLoadError with clauses that match the named classes only, not
\* their subclasses
TranslateLoadErrorExactClass(r) ==
  IF r.exc = "none" THEN r
  ELSE IF r.exc = "TOMLDecodeError"
         THEN [exc |-> "CacheCorruptedError", cache_path |-> CacheFile,
               parse_error |-> <<r.exc>>]
  ELSE IF r.exc \in {"KeyError", "ValueError", "TypeError"}
         THEN [exc |-> "CacheCorruptedError", cache_path |-> CacheFile,
               parse_error |-> <<"Invalid cache structure", r.exc>>]
  ELSE r

\* the except clauses of load_cache applied to the outcome r of the try block
TranslateLoadError(r) ==
  IF r.exc = "none" THEN r
  ELSE IF Catches({"TOMLDecodeError"}, r.exc)
         THEN [exc |-> "CacheCorruptedError", cache_path |-> CacheFile,
               parse_error |-> <<r.exc>>]
  ELSE IF Catches({"KeyError", "ValueError", "TypeError"}, r.exc)
         THEN [exc |-> "CacheCorruptedError", cache_path |-> CacheFile,
               parse_error |-> <<"Invalid cache structure", r.exc>>]
  ELSE r

\* load_cache without the check that the cache file exists
load_cacheEmptyWhenAbsent(f, io) ==
  IF f.state = "absent" THEN Ok(<<>>)
  ELSE TranslateLoadError(LoadBody(f, io))

\* CacheService.load_cache(): Ok(providers) or the exception raised
load_cache(f, io) ==
  IF f.state = "absent" THEN Raise("CacheNotFoundError")
  ELSE TranslateLoadError(LoadBody(f, io))

\* the models of all providers, in order
RECURSIVE Flatten(_)
Flatten(providers) ==
  IF providers = <<>> THEN <<>>
  ELSE Head(providers).models \o Flatten(Tail(providers))

\* FlattenOf that returns from inside the loop, after the first provider
FlattenOfFirstProvider(r) ==
  IF r.exc # "none" THEN r
  ELSE Ok(IF r.val = <<>> THEN <<>> ELSE Head(r.val).models)

\* FlattenOf that treats a cache without models as an error
FlattenOfRejectsEmpty(r) ==
  IF r.exc # "none" THEN r
  ELSE IF Flatten(r.val) = <<>> THEN Raise("CacheNotFoundError")
  ELSE Ok(Flatten(r.val))

\* the loop of get_cached_models over the outcome r of load_cache
FlattenOf(r) == IF r.exc # "none" THEN r ELSE Ok(Flatten(r.val))

\* CacheService.get_cached_models()
get_cached_models(f, io) == FlattenOf(load_cache(f, io))

----------------------------------------------------------------------------
(* Configuration and provider fetchers *)

ProviderOrder == <<"openai", "google", "anthropic">>
Providers == {"openai", "google", "anthropic"}

\* the environments Config.from_env reads: the credentials path is unset,
\* names a file that is missing or one that exists (set only together with
\* the Vertex AI flag unless the file is missing), the retention days are 0
\* or the default 30, the cache directory is writable or not
Configs ==
  {c \in [openai_api_key : BOOLEAN, google_api_key : BOOLEAN,
          google_genai_use_vertexai : BOOLEAN,
          google_application_credentials : {"unset", "missing", "exists"},
          llm_discovery_retention_days : {0, 30},
          cache_dir_writable : BOOLEAN] :
     c.google_application_credentials = "exists"
       => c.google_genai_use_vertexai}

\* ValidateConfig without validate_vertex_ai_credentials
ValidateConfigNoVertexCheck(c) ==
  IF c.google_application_credentials = "missing" THEN Raise("ValidationError")
  ELSE IF c.llm_discovery_retention_days <= 0 THEN Raise("ValidationError")
  ELSE IF ~c.cache_dir_writable THEN Raise("ValidationError")
  ELSE Ok(c)

\* the validators of Config, run when from_env constructs it: the field
\* validators first, then the model validators
ValidateConfig(c) ==
  IF c.google_application_credentials = "missing" THEN Raise("ValidationError")
  ELSE IF c.llm_discovery_retention_days <= 0 THEN Raise("ValidationError")
  ELSE IF /\ c.google_genai_use_vertexai
          /\ c.google_application_credentials = "unset"
         THEN Raise("ValidationError")
  ELSE IF ~c.cache_dir_writable THEN Raise("ValidationError")
  ELSE Ok(c)

\* exit code of update_command and list_command when Config.from_env()
\* raises exc: `except ValueError` and `except Exception` both exit with 1
ExitOnConfigError(exc) == IF Catches({"ValueError"}, exc) THEN 1 ELSE 1

\* IsActive if the google task were registered on the API key alone
IsActiveKeyOnly(c, p) ==
  CASE p = "openai" -> c.openai_api_key
    [] p = "google" -> c.google_api_key
    [] OTHER -> TRUE

\* whether fetch_all_models appends a task for provider p
IsActive(c, p) ==
  CASE p = "openai" -> c.openai_api_key
    [] p = "google" -> c.google_api_key \/ c.google_genai_use_vertexai
    [] OTHER -> TRUE

\* provider_names of fetch_all_models
provider_names(c) == SelectSeq(ProviderOrder, LAMBDA p : IsActive(c, p))

\* the model ids the fetcher of provider p reports
OfferedIds(p) == IF p = "openai" THEN <<"m2", "m1">> ELSE <<"m1">>

\* the exceptions a fetcher may raise
FetcherErrors(p) ==
  IF p = "anthropic" THEN {"ProviderFetchError"}
  ELSE {"ProviderFetchError", "AuthenticationError"}

\* fetcher.provider_name
FetcherProviderName(p) == p

\* the Model records fetch_models() of provider p returns at time t
FetchedModels(p, ids, t) ==
  [i \in 1..Len(ids) |->
     [model_id |-> ids[i], model_name |-> ids[i], provider_name |-> p,
      source |-> IF p = "anthropic" THEN "manual" ELSE "api",
      fetched_at |-> t, metadata |-> EmptyMap]]

\* _fetch_from_provider: the snapshot of a fetch that succeeded at time t
FetchFromProvider(p, ids, t) ==
  [provider_name |-> FetcherProviderName(p),
   models |-> FetchedModels(p, ids, t),
   fetch_status |-> "success",
   fetched_at |-> t,
   error_message |-> None]

----------------------------------------------------------------------------
(* DiscoveryService.fetch_all_models *)

\* GatherReturns as it would be without return_exceptions: the first
\* exception ends the await
GatherReturnsOnFirstException(res) ==
  \/ \E p \in Providers : res[p].tag = "exc"
  \/ \A p \in Providers : res[p].tag \in {"none", "snapshot", "exc"}

\* await asyncio.gather(*tasks, return_exceptions=True) returns once every
\* task has completed, with a snapshot or with an exception
GatherReturns(res) ==
  \A p \in Providers : res[p].tag \in {"none", "snapshot", "exc"}

\* gather as it would be if results arrived in the order of completion
gatherByCompletion(names, res, done) == [i \in 1..Len(done) |-> res[done[i]]]

\* asyncio.gather(*tasks, return_exceptions=True): one result per task, in
\* the order of the tasks, whatever the order of completion (done)
gather(names, res, done) == [i \in 1..Len(names) |-> res[names[i]]]

\* ProcessResults with every provider appended to successful_providers
ProcessResultsAllSuccessful(names, gathered) ==
  LET idx == [i \in 1..Len(names) |-> i]
      okIdx == SelectSeq(idx, LAMBDA i : gathered[i].tag = "snapshot")
      badIdx == SelectSeq(idx, LAMBDA i : gathered[i].tag = "exc")
      snapshots == [k \in 1..Len(okIdx) |-> gathered[okIdx[k]].snap]
      failed_providers == [k \in 1..Len(badIdx) |-> names[badIdx[k]]]
  IN IF failed_providers # <<>>
       THEN [kind |-> "PartialFetchError",
             successful_providers |-> names,
             failed_providers |-> failed_providers]
       ELSE [kind |-> "return", snapshots |-> snapshots]

\* ProcessResults with the two raise statements exchanged
ProcessResultsSwappedRaise(names, gathered) ==
  LET idx == [i \in 1..Len(names) |-> i]
      okIdx == SelectSeq(idx, LAMBDA i : gathered[i].tag = "snapshot")
      badIdx == SelectSeq(idx, LAMBDA i : gathered[i].tag = "exc")
      snapshots == [k \in 1..Len(okIdx) |-> gathered[okIdx[k]].snap]
      successful_providers == [k \in 1..Len(okIdx) |-> names[okIdx[k]]]
      failed_providers == [k \in 1..Len(badIdx) |-> names[badIdx[k]]]
  IN IF failed_providers # <<>>
       THEN IF successful_providers # <<>>
              THEN [kind |-> "ProviderFetchError",
                    provider_name |-> "all",
                    cause |-> "All providers failed"]
              ELSE [kind |-> "PartialFetchError",
                    successful_providers |-> successful_providers,
                    failed_providers |-> failed_providers]
       ELSE [kind |-> "return", snapshots |-> snapshots]

\* ProcessResults that re-raises the first exception a task raised
ProcessResultsReraise(names, gathered) ==
  LET idx == [i \in 1..Len(names) |-> i]
      okIdx == SelectSeq(idx, LAMBDA i : gathered[i].tag = "snapshot")
      badIdx == SelectSeq(idx, LAMBDA i : gathered[i].tag = "exc")
      snapshots == [k \in 1..Len(okIdx) |-> gathered[okIdx[k]].snap]
  IN IF badIdx # <<>>
       THEN [kind |-> gathered[badIdx[1]].exc,
             provider_name |-> names[badIdx[1]],
             cause |-> "fetch failed"]
       ELSE [kind |-> "return", snapshots |-> snapshots]

\* ProcessResults without the fail-fast check
ProcessResultsNoFailFast(names, gathered) ==
  LET idx == [i \in 1..Len(names) |-> i]
      okIdx == SelectSeq(idx, LAMBDA i : gathered[i].tag = "snapshot")
  IN [kind |-> "return",
      snapshots |-> [k \in 1..Len(okIdx) |-> gathered[okIdx[k]].snap]]

\* the loop over zip(provider_names, results) and the fail-fast decision
ProcessResults(names, gathered) ==
  LET idx == [i \in 1..Len(names) |-> i]
      okIdx == SelectSeq(idx, LAMBDA i : gathered[i].tag = "snapshot")
      badIdx == SelectSeq(idx, LAMBDA i : gathered[i].tag = "exc")
      snapshots == [k \in 1..Len(okIdx) |-> gathered[okIdx[k]].snap]
      successful_providers == [k \in 1..Len(okIdx) |-> names[okIdx[k]]]
      failed_providers == [k \in 1..Len(badIdx) |-> names[badIdx[k]]]
  IN IF failed_providers # <<>>
       THEN IF successful_providers # <<>>
              THEN [kind |-> "PartialFetchError",
                    successful_providers |-> successful_providers,
                    failed_providers |-> failed_providers]
              ELSE [kind |-> "ProviderFetchError",
                    provider_name |-> "all",
                    cause |-> "All providers failed"]
       ELSE [kind |-> "return", snapshots |-> snapshots]

fetch_all_models(names, res, done) ==
  ProcessResults(names, gather(names, res, done))

----------------------------------------------------------------------------
(* Commands *)

\* UpdateExitOnFetchError if a partial failure counted as success
UpdateExitPartialAsSuccess(kind) ==
  CASE kind = "PartialFetchError" -> 0
    [] kind = "ProviderFetchError" -> 1
    [] kind = "AuthenticationError" -> 2
    [] OTHER -> 1

\* exit code of update_command when fetch_all_models raises kind
UpdateExitOnFetchError(kind) ==
  CASE kind = "PartialFetchError" -> 1
    [] kind = "ProviderFetchError" -> 1
    [] kind = "AuthenticationError" -> 2
    [] OTHER -> 1

\* UpdateSaves if the handler of PartialFetchError went on to save
UpdateSavesOnPartial(outcome) ==
  outcome.kind \in {"return", "PartialFetchError"}

\* whether update_command reaches service.save_to_cache(providers)
UpdateSaves(outcome) == outcome.kind = "return"

\* exit code of list_command for the result r of get_cached_models
ListExit(r) == IF r.exc = "none" THEN 0 ELSE 1

\* outcomes of reading an existing cache file from disk
ReadOutcomes == {"ok", "PermissionError"}

\* the keys of the exporters table of export_command
SUPPORTED_EXPORT_FORMATS == {"json", "csv", "yaml", "markdown", "toml"}

\* the keyword parameters Config.from_env declares
FromEnvParameters == {}

\* Config.from_env(**kwargs): a keyword it does not declare is a TypeError
from_env(kwargs) ==
  IF kwargs \subseteq FromEnvParameters THEN Ok("config")
  ELSE Raise("TypeError")

\* how the try block of export_command ends: with typer.Exit(code), with
\* another exception, or normally; and what it did on the way
ExportEnds(exc, code, reads, wrote, printed) ==
  [exc |-> exc, code |-> code, cache_reads |-> reads, wrote |-> wrote,
   printed |-> printed]

\* what an exporter renders: one row per model, in the order given
Rendered(format, models) ==
  [format |-> format,
   rows |-> [i \in 1..Len(models) |->
               <<models[i].provider_name, models[i].model_id>>]]

\* the exporters: each rejects an empty list of models
export_json(models) ==
  IF models = <<>> THEN Raise("ValueError") ELSE Ok(Rendered("json", models))

export_csv(models) ==
  IF models = <<>> THEN Raise("ValueError") ELSE Ok(Rendered("csv", models))

export_markdown(models) ==
  IF models = <<>> THEN Raise("ValueError")
  ELSE Ok(Rendered("markdown", models))

export_yaml(models) ==
  IF models = <<>> THEN Raise("ValueError") ELSE Ok(Rendered("yaml", models))

export_toml(models) ==
  IF models = <<>> THEN Raise("ValueError") ELSE Ok(Rendered("toml", models))

\* exporters as they would be if export_csv wrote the header alone for an
\* empty list
exportersCsvHeaderOnly(format, models) ==
  CASE format = "json" -> export_json(models)
    [] format = "csv" -> Ok(Rendered("csv", models))
    [] format = "yaml" -> export_yaml(models)
    [] format = "markdown" -> export_markdown(models)
    [] OTHER -> export_toml(models)

\* exporters[format](models)
exporters(format, models) ==
  CASE format = "json" -> export_json(models)
    [] format = "csv" -> export_csv(models)
    [] format = "yaml" -> export_yaml(models)
    [] format = "markdown" -> export_markdown(models)
    [] OTHER -> export_toml(models)

\* export_command from service.get_cached_models() on; r is the result of
\* get_cached_models, wr the outcome of writing the output file
ExportFromCache(format, output, r, wr) ==
  IF r.exc = "CacheNotFoundError" THEN ExportEnds("Exit", 1, 1, FALSE, FALSE)
  ELSE IF r.exc # "none" THEN ExportEnds(r.exc, 0, 1, FALSE, FALSE)
  ELSE IF r.val = <<>> THEN ExportEnds("Exit", 1, 1, FALSE, FALSE)
  ELSE IF exporters(format, r.val).exc # "none"
         THEN ExportEnds("Exit", 1, 1, FALSE, FALSE)
  ELSE IF output = "stdout" THEN ExportEnds("none", 0, 1, FALSE, TRUE)
  ELSE IF wr # "ok" THEN ExportEnds("Exit", 1, 1, FALSE, FALSE)
  ELSE ExportEnds("none", 0, 1, TRUE, FALSE)

\* export_command from Config.from_env(require_api_keys=False) on; c is the
\* result of that call
ExportWithConfig(c, format, output, f, io, wr) ==
  IF c.exc = "none"
    THEN ExportFromCache(format, output, get_cached_models(f, io), wr)
  ELSE IF Catches({"ValueError"}, c.exc)
         THEN ExportEnds("Exit", 1, 0, FALSE, FALSE)
  ELSE ExportEnds(c.exc, 0, 0, FALSE, FALSE)

\* the try block of export_command
ExportBody(format, output, f, io, wr) ==
  IF format \notin SUPPORTED_EXPORT_FORMATS
    THEN ExportEnds("Exit", 2, 0, FALSE, FALSE)
    ELSE ExportWithConfig(from_env({"require_api_keys"}), format, output, f,
                          io, wr)

\* the outer handlers of export_command applied to the way b the try block
\* ended: `except ValueError` and `except Exception` both raise
\* typer.Exit(1), and typer.Exit, a RuntimeError, is itself an Exception
ExportHandlers(b) ==
  [exit_code |-> IF b.exc = "none" THEN 0 ELSE 1,
   cache_reads |-> b.cache_reads, wrote |-> b.wrote, printed |-> b.printed]

\* export_command(format, output)
export_command(format, output, f, io, wr) ==
  ExportHandlers(ExportBody(format, output, f, io, wr))

----------------------------------------------------------------------------
(* Damage done to the cache file from outside the program *)

Without(f, k) == [x \in DOMAIN f \ {k} |-> f[x]]
With(f, k, v) == [x \in DOMAIN f \cup {k} |-> IF x = k THEN v ELSE f[x]]

\* text that is not TOML, bytes that are not UTF-8
ParseErrors == {"TOMLDecodeError", "UnicodeDecodeError"}

GoodModel ==
  [model_id |-> Str("m1"), model_name |-> Str("m1"),
   provider_name |-> Str("openai"), source |-> Str("api"),
   fetched_at |-> IsoStr(<<0>>), metadata |-> Table(EmptyMap)]

GoodEntry ==
  [provider_name |-> Str("openai"), fetch_status |-> Str("success"),
   fetched_at |-> IsoStr(<<0>>), error_message |-> Str(""),
   models |-> Array(<<Table(GoodModel)>>)]

\* values of the metadata key from which created_at cannot be recovered
BadMetadata ==
  {IntV(5),
   Table([last_updated |-> IsoStr(<<0>>)]),
   Table([created_at |-> IntV(5)]),
   Table([created_at |-> Str("")]),
   Table([created_at |-> Str("yesterday")]),
   Table([created_at |-> Datetime(<<0>>)])}

\* provider entries that lack a required field or hold a malformed one
BadEntries ==
  {Table(Without(GoodEntry, "provider_name")),
   Table(Without(GoodEntry, "fetch_status")),
   Table(Without(GoodEntry, "fetched_at")),
   Table(With(GoodEntry, "fetch_status", Str("unknown"))),
   Table(With(GoodEntry, "fetched_at", IntV(5))),
   Table(With(GoodEntry, "models", IntV(5))),
   Table(With(GoodEntry, "models", Array(<<Str("m1")>>))),
   Table(With(GoodEntry, "models",
              Array(<<Table(Without(GoodModel, "model_id"))>>))),
   Table(With(GoodEntry, "models",
              Array(<<Table(With(GoodModel, "source", Str("web")))>>))),
   IntV(1),
   Str("openai")}

\* values of the providers key that are not a list of well-formed entries
BadProviders ==
  {IntV(5), Str("ab"), Table([openai |-> Table(GoodEntry)])}
  \cup {Array(<<e>>) : e \in BadEntries}
  \cup {Array(<<Table(GoodEntry), e>>) : e \in {IntV(1)}}

\* metadata of f when created_at can be read from it, else fresh metadata
KeptMetadata(f) ==
  IF f.state = "present" /\ f.parse = "ok" /\ "metadata" \in DOMAIN f.doc.kv
    THEN f.doc.kv.metadata
    ELSE Table([version |-> IntV(TOML_CACHE_VERSION),
                created_at |-> IsoStr(<<0>>),
                last_updated |-> IsoStr(<<0>>)])

\* the files an outside writer can leave in place of f
Damaged(f) ==
  {Unparsable(e) : e \in ParseErrors}
  \cup {Parsed(Table([providers |-> Array(<<Table(GoodEntry)>>)])),
        Parsed(Table([metadata |-> KeptMetadata(f)]))}
  \cup {Parsed(Table([metadata |-> m,
                      providers |-> Array(<<Table(GoodEntry)>>)])) :
          m \in BadMetadata}
  \cup {Parsed(Table([metadata |-> KeptMetadata(f), providers |-> q])) :
          q \in BadProviders}

----------------------------------------------------------------------------------------------------------------------------------------
(* State machine *)

\* the clock advances at most this often while one update is fetching
MaxTicksPerFetch == 0

NoTask == [tag |-> "none"]
Pending == [tag |-> "pending"]
NoTasks == [p \in Providers |-> NoTask]
NoCmd == [cmd |-> "none"]
Fresh == [pristine |-> TRUE, first_save |-> 0, last_save |-> 0]
Tainted == [pristine |-> FALSE, first_save |-> 0, last_save |-> 0]

\* hist after a save_cache call at time t on file f that raised exc
Recorded(h, f, t, exc) ==
  IF exc = "none" /\ h.pristine
    THEN [h EXCEPT !.first_save = IF f.state = "absent" THEN t ELSE @,
                   !.last_save = t]
    ELSE h

Init ==
  /\ config \in Configs
  /\ now = 0
  /\ file = Absent
  /\ pc = "idle"
  /\ ticks = 0
  /\ results = NoTasks
  /\ completed = <<>>
  /\ last = NoCmd
  /\ loaded = NoCmd
  /\ hist = Fresh

\* update_command up to the await of asyncio.gather: one task per active
\* provider has been created
UpdateStart ==
  /\ pc = "idle"
  /\ ValidateConfig(config).exc = "none"
  /\ pc' = "fetching"
  /\ ticks' = 0
  /\ results' = [p \in Providers |->
                   IF IsActive(config, p) THEN Pending ELSE NoTask]
  /\ completed' = <<>>
  /\ last' = NoCmd
  /\ loaded' = NoCmd
  /\ UNCHANGED <<config, now, file, hist>>

\* update_command when Config.from_env() raises
UpdateRejected ==
  /\ pc = "idle"
  /\ ValidateConfig(config).exc # "none"
  /\ last' = [cmd |-> "update_rejected",
              exit_code |-> ExitOnConfigError(ValidateConfig(config).exc)]
  /\ loaded' = NoCmd
  /\ results' = NoTasks
  /\ completed' = <<>>
  /\ UNCHANGED <<config, now, file, pc, ticks, hist>>

\* the task of provider p completes with a snapshot
FetchSucceed(p) ==
  /\ pc = "fetching"
  /\ results[p] = Pending
  /\ results' = [results EXCEPT
                   ![p] = [tag |-> "snapshot",
                           snap |-> FetchFromProvider(p, OfferedIds(p), now)]]
  /\ completed' = Append(completed, p)
  /\ UNCHANGED <<config, now, file, pc, ticks, last, loaded, hist>>

\* the task of provider p completes with an exception, re-raised by
\* _fetch_from_provider and captured by gather
FetchFail(p) ==
  /\ pc = "fetching"
  /\ results[p] = Pending
  /\ \E e \in FetcherErrors(p) :
       results' = [results EXCEPT ![p] = [tag |-> "exc", exc |-> e]]
  /\ completed' = Append(completed, p)
  /\ UNCHANGED <<config, now, file, pc, ticks, last, loaded, hist>>

\* update_command from the return of gather to its exit
UpdateFinish ==
  /\ pc = "fetching"
  /\ GatherReturns(results)
  /\ LET names == provider_names(config)
         outcome == fetch_all_models(names, results, completed)
         saves == UpdateSaves(outcome)
     IN \E io \in IF saves /\ file.state = "present"
                    THEN ReadOutcomes ELSE {"ok"},
           wr \in IF saves THEN {"ok", "denied"} ELSE {"ok"} :
          LET providers == IF outcome.kind = "return" THEN outcome.snapshots
                           ELSE <<>>
              sv == IF saves
                      THEN save_cache(file, providers, now, io, wr)
                      ELSE [exc |-> "none", file |-> file]
              code == IF ~saves THEN UpdateExitOnFetchError(outcome.kind)
                      ELSE IF sv.exc = "none" THEN 0 ELSE 1
          IN /\ file' = sv.file
             /\ last' = [cmd |-> "update", file_before |-> file,
                         fetch |-> outcome,
                         save_calls |-> IF saves THEN 1 ELSE 0,
                         save_exc |-> sv.exc, io |-> io, time |-> now,
                         exit_code |-> code]
             /\ hist' = IF saves THEN Recorded(hist, file, now, sv.exc)
                        ELSE hist
  /\ pc' = "idle"
  /\ ticks' = 0
  /\ UNCHANGED <<config, now, results, completed, loaded>>

\* list_command
ListCommand ==
  /\ pc = "idle"
  /\ \E io \in IF file.state = "present" THEN ReadOutcomes ELSE {"ok"} :
       loaded' = IF ValidateConfig(config).exc # "none"
                   THEN [cmd |-> "list_rejected",
                         exit_code |->
                           ExitOnConfigError(ValidateConfig(config).exc)]
                   ELSE [cmd |-> "list", io |-> io,
                         providers |-> load_cache(file, io),
                         models |-> get_cached_models(file, io),
                         exit_code |-> ListExit(get_cached_models(file, io))]
  /\ last' = NoCmd
  /\ results' = NoTasks
  /\ completed' = <<>>
  /\ UNCHANGED <<config, now, file, pc, ticks, hist>>

\* export_command with a --format and with or without --output
ExportCommand ==
  /\ pc = "idle"
  /\ \E format \in SUPPORTED_EXPORT_FORMATS \cup {"xml"},
        output \in {"stdout", "file"},
        io \in IF file.state = "present" THEN ReadOutcomes ELSE {"ok"},
        wr \in {"ok", "OSError"} :
       loaded' = [cmd |-> "export", format |-> format, output |-> output,
                  io |-> io, wr |-> wr,
                  result |-> export_command(format, output, file, io, wr)]
  /\ last' = NoCmd
  /\ results' = NoTasks
  /\ completed' = <<>>
  /\ UNCHANGED <<config, now, file, pc, ticks, hist>>

\* the clock advances
Tick ==
  /\ now < MaxTime
  /\ pc = "fetching" => ticks < MaxTicksPerFetch
  /\ now' = now + 1
  /\ ticks' = IF pc = "fetching" THEN ticks + 1 ELSE 0
  /\ last' = NoCmd
  /\ loaded' = NoCmd
  /\ results' = IF pc = "fetching" THEN results ELSE NoTasks
  /\ completed' = IF pc = "fetching" THEN completed ELSE <<>>
  /\ UNCHANGED <<config, file, pc, hist>>

\* something other than the program leaves f in place of the cache file
Overwrite(f) ==
  /\ pc = "idle"
  /\ file' = f
  /\ hist' = Tainted
  /\ last' = NoCmd
  /\ loaded' = NoCmd
  /\ results' = NoTasks
  /\ completed' = <<>>
  /\ UNCHANGED <<config, now, pc, ticks>>

\* the cache file is overwritten with text that does not parse
ExternalGarble == \E e \in ParseErrors : Overwrite(Unparsable(e))

\* the cache file is overwritten with damaged content of any kind
ExternalCorrupt == \E f \in Damaged(file) : Overwrite(f)

\* something other than the program removes the cache file
ExternalDelete ==
  /\ pc = "idle"
  /\ file.state = "present"
  /\ file' = Absent
  /\ hist' = Fresh
  /\ last' = NoCmd
  /\ loaded' = NoCmd
  /\ results' = NoTasks
  /\ completed' = <<>>
  /\ UNCHANGED <<config, now, pc, ticks>>

Next ==
  \/ UpdateStart
  \/ UpdateRejected
  \/ \E p \in Providers : FetchSucceed(p)
  \/ \E p \in Providers : FetchFail(p)
  \/ UpdateFinish
  \/ ListCommand
  \/ Tick
  \/ ExternalGarble
  \/ ExternalDelete

\* the commands of the program, run one after another against a cache file
\* that may be garbled or removed in between
Spec == Init /\ [][Next]_vars

----------------------------------------------------------------------------
(* The cache store on its own: save_cache and load_cache called directly *)

\* a snapshot that reports a failed fetch
FailureSnapshot(p, t) ==
  [provider_name |-> p, models |-> <<>>, fetch_status |-> "failure",
   fetched_at |-> t, error_message |-> Str("timeout")]

\* the provider lists save_cache is called with at time t
SnapshotLists(t) ==
  {<<>>,
   <<FetchFromProvider("anthropic", <<"m1">>, t)>>,
   <<FetchFromProvider("openai", <<"m2", "m1">>, t),
     FetchFromProvider("anthropic", <<"m1">>, t)>>,
   <<FetchFromProvider("openai", <<"m1">>, t),
     FailureSnapshot("google", t)>>}

CacheInit ==
  /\ config = [openai_api_key |-> TRUE, google_api_key |-> TRUE,
               google_genai_use_vertexai |-> FALSE,
               google_application_credentials |-> "unset",
               llm_discovery_retention_days |-> 30,
               cache_dir_writable |-> TRUE]
  /\ now = 0
  /\ file = Absent
  /\ pc = "idle"
  /\ ticks = 0
  /\ results = NoTasks
  /\ completed = <<>>
  /\ last = NoCmd
  /\ loaded = NoCmd
  /\ hist = Fresh

\* CacheService.save_cache(providers) with one of the given write outcomes
SaveWith(outcomes) ==
  /\ \E providers \in SnapshotLists(now) :
     \E io \in IF file.state = "present" THEN ReadOutcomes ELSE {"ok"},
        wr \in outcomes :
       LET sv == save_cache(file, providers, now, io, wr)
       IN /\ file' = sv.file
          /\ last' = [cmd |-> "save", file_before |-> file,
                      providers |-> providers, save_exc |-> sv.exc,
                      io |-> io, wr |-> wr, time |-> now]
          /\ hist' = IF sv.exc # "none" /\ sv.file # file THEN Tainted
                     ELSE Recorded(hist, file, now, sv.exc)
  /\ loaded' = NoCmd
  /\ UNCHANGED <<config, now, pc, ticks, results, completed>>

\* CacheService.save_cache(providers) whose write completes
SaveCache == SaveWith({"ok"})

\* CacheService.save_cache(providers) whose write is denied or interrupted
SaveCacheFailing == SaveWith(WriteOutcomes \ {"ok"})

\* LoadCache if it removed a cache file it found corrupted
LoadCacheRepairs ==
  /\ \E io \in IF file.state = "present" THEN ReadOutcomes ELSE {"ok"} :
       /\ loaded' = [cmd |-> "load", io |-> io,
                     providers |-> load_cache(file, io),
                     models |-> get_cached_models(file, io)]
       /\ file' = IF load_cache(file, io).exc = "CacheCorruptedError"
                    THEN Absent ELSE file
  /\ UNCHANGED <<config, now, pc, ticks, results, completed, last, hist>>

\* an exporter called on the models of the cache, or on no models when the
\* cache cannot be read
CallExporter ==
  /\ \E format \in SUPPORTED_EXPORT_FORMATS :
       loaded' = [cmd |-> "exporter", format |-> format,
                  input |-> IF get_cached_models(file, "ok").exc = "none"
                              THEN get_cached_models(file, "ok").val
                              ELSE <<>>,
                  result |->
                    exporters(format,
                              IF get_cached_models(file, "ok").exc = "none"
                                THEN get_cached_models(file, "ok").val
                                ELSE <<>>)]
  /\ last' = NoCmd
  /\ UNCHANGED <<config, now, file, pc, ticks, results, completed, hist>>

\* CacheService.load_cache() and get_cached_models()
LoadCache ==
  /\ \E io \in IF file.state = "present" THEN ReadOutcomes ELSE {"ok"} :
       loaded' = [cmd |-> "load", io |-> io,
                  providers |-> load_cache(file, io),
                  models |-> get_cached_models(file, io)]
  /\ UNCHANGED <<config, now, file, pc, ticks, results, completed,
                 last, hist>>

CacheNext ==
  \/ SaveCache
  \/ LoadCache
  \/ ListCommand
  \/ Tick
  \/ ExternalCorrupt
  \/ ExternalDelete

CacheSpec == CacheInit /\ [][CacheNext]_vars

WriteNext ==
  \/ SaveCache
  \/ SaveCacheFailing
  \/ LoadCache
  \/ Tick
  \/ ExternalDelete

ReadNext ==
  \/ SaveCache
  \/ ListCommand
  \/ ExportCommand
  \/ CallExporter
  \/ ExternalCorrupt
  \/ ExternalDelete

\* the commands and functions that read the cache, on every kind of cache
\* file, at one instant
ReadSpec == CacheInit /\ [][ReadNext]_vars

\* save_cache with writes that may fail, on a cache file nothing else writes
WriteSpec == CacheInit /\ [][WriteNext]_vars

----------------------------------------------------------------------------
(* fetch_all_models with fetchers that may hang *)

Hung == [tag |-> "hung"]

\* the fetch of provider p blocks and never completes
FetchHang(p) ==
  /\ pc = "fetching"
  /\ results[p] = Pending
  /\ results' = [results EXCEPT ![p] = Hung]
  /\ UNCHANGED <<config, now, file, pc, ticks, completed, last, loaded, hist>>

HangNext ==
  \/ UpdateStart
  \/ UpdateRejected
  \/ \E p \in Providers : FetchSucceed(p)
  \/ \E p \in Providers : FetchFail(p)
  \/ \E p \in Providers : FetchHang(p)
  \/ UpdateFinish

\* the event loop runs every task until it completes or blocks for good, and
\* resumes fetch_all_models once gather returns
HangSpec ==
  /\ Init
  /\ [][HangNext]_vars
  /\ \A p \in Providers :
        WF_vars(FetchSucceed(p) \/ FetchFail(p) \/ FetchHang(p))
  /\ WF_vars(UpdateFinish)

----------------------------------------------------------------------------
(* Properties of fetch_all_models and update_command, under Spec *)

\* an update_command has just exited
UpdateDone == last.cmd = "update"

\* the launched tasks, those that produced a snapshot and those that raised,
\* each in registration order
LaunchedNames == SelectSeq(ProviderOrder, LAMBDA p : results[p].tag # "none")
SucceededNames ==
  SelectSeq(ProviderOrder, LAMBDA p : results[p].tag = "snapshot")
FailedNames == SelectSeq(ProviderOrder, LAMBDA p : results[p].tag = "exc")

\* C1: when at least one provider fails and at least one succeeds,
\* fetch_all_models raises PartialFetchError whose successful_providers are
\* exactly the providers that succeeded and whose failed_providers exactly those
\* that failed, each in registration order.
C1_PartialFetchErrorLists ==
  (UpdateDone /\ SucceededNames # <<>> /\ FailedNames # <<>>) =>
    /\ last.fetch.kind = "PartialFetchError"
    /\ last.fetch.successful_providers = SucceededNames
    /\ last.fetch.failed_providers = FailedNames

C1_Witness ==
  /\ UpdateDone
  /\ last.fetch.kind = "PartialFetchError"
  /\ last.fetch.successful_providers = <<"openai", "anthropic">>
  /\ last.fetch.failed_providers = <<"google">>
  /\ completed = <<"anthropic", "google", "openai">>

\* C2: whenever fetch_all_models fails in update_command, save_cache is not
\* invoked and the cache file is exactly what it was before the command.
C2_FailedFetchLeavesCache ==
  (UpdateDone /\ last.fetch.kind # "return") =>
    /\ last.save_calls = 0
    /\ file = last.file_before

C2_Witness ==
  /\ UpdateDone
  /\ last.fetch.kind = "PartialFetchError"
  /\ last.file_before.state = "present"
  /\ last.file_before.parse = "ok"
  /\ file = last.file_before

\* C3 (as amended): when every active provider fails, fetch_all_models raises
\* ProviderFetchError with provider_name "all" and cause "All providers
\* failed": the class of the single-provider error, distinct from
\* PartialFetchError.
C3_AllFailRaisesProviderFetchError ==
  (UpdateDone /\ SucceededNames = <<>>) =>
    /\ last.fetch.kind = "ProviderFetchError"
    /\ last.fetch.provider_name = "all"
    /\ last.fetch.cause = "All providers failed"

C3_Witness ==
  /\ UpdateDone
  /\ FailedNames = ProviderOrder
  /\ last.fetch.kind = "ProviderFetchError"

\* C3 as claimed: when every active provider fails, the error is an
\* AllProvidersFailedError, a kind distinct from PartialFetchError and from
\* the single-provider error.
C3_AllFailRaisesOwnKind ==
  (UpdateDone /\ SucceededNames = <<>>) =>
    /\ last.fetch.kind = "AllProvidersFailedError"
    /\ last.fetch.kind \notin {"PartialFetchError", "ProviderFetchError"}

\* C4: fetch_all_models returns normally iff every launched fetch succeeded,
\* and then returns one snapshot per active provider, each with status success
\* and a provider name of its own.
C4_ReturnsIffAllSucceed ==
  UpdateDone =>
    /\ (last.fetch.kind = "return") <=> (FailedNames = <<>>)
    /\ last.fetch.kind = "return" =>
         LET snaps == last.fetch.snapshots
         IN /\ Len(snaps) = Len(provider_names(config))
            /\ \A i \in 1..Len(snaps) : snaps[i].fetch_status = "success"
            /\ \A i, j \in 1..Len(snaps) :
                 snaps[i].provider_name = snaps[j].provider_name => i = j
            /\ {snaps[i].provider_name : i \in 1..Len(snaps)}
                 = {p \in Providers : IsActive(config, p)}

C4_Witness ==
  /\ UpdateDone
  /\ last.fetch.kind = "return"
  /\ Len(last.fetch.snapshots) = 3

\* C5: the snapshots fetch_all_models returns, and the providers a following
\* save persists, are in registration order (openai, google, anthropic,
\* restricted to the active providers) whatever the order of completion.
C5_RegistrationOrder ==
  (UpdateDone /\ last.fetch.kind = "return") =>
    LET snaps == last.fetch.snapshots
        names == provider_names(config)
    IN /\ Len(snaps) = Len(names)
       /\ \A i \in 1..Len(snaps) :
            /\ snaps[i].provider_name = names[i]
            /\ snaps[i] = results[names[i]].snap
       /\ last.save_exc = "none" =>
            /\ Len(file.doc.kv.providers.items) = Len(names)
            /\ \A i \in 1..Len(names) :
                 file.doc.kv.providers.items[i].kv.provider_name = Str(names[i])

C5_Witness ==
  /\ UpdateDone
  /\ last.fetch.kind = "return"
  /\ last.save_exc = "none"
  /\ completed = <<"anthropic", "google", "openai">>
  /\ file.doc.kv.providers.items[1].kv.provider_name = Str("openai")

----------------------------------------------------------------------------
(* Properties of the cache store, under CacheSpec *)

\* a save_cache call has just ended / a load_cache call has just ended
SaveDone == last.cmd = "save"
LoadDone == loaded.cmd = "load"

\* the time a metadata timestamp of the cache file f denotes
StoredTime(f, k) ==
  fromisoformat(Sub(Sub(tomllib_load(f, "ok"), "metadata"), k))

\* C6: over successful saves on a cache file that nothing else touches,
\* created_at stays the time of the first save and last_updated is the time
\* of the latest save.
C6_CreatedAtStable ==
  (hist.pristine /\ file.state = "present") =>
    /\ StoredTime(file, "created_at") = Ok(hist.first_save)
    /\ StoredTime(file, "last_updated") = Ok(hist.last_save)

C6_Witness ==
  /\ hist.pristine
  /\ file.state = "present"
  /\ SaveDone
  /\ last.file_before.state = "present"
  /\ hist.first_save = 1
  /\ hist.last_save = 2
  /\ StoredTime(file, "created_at") = Ok(1)

\* a well-formed ISO-8601 timestamp string
IsTimestamp(v) == v.t = "str" /\ "iso" \in DOMAIN v /\ Len(v.iso) \in {1, 2}

\* created_at cannot be recovered from the existing file f: its content does
\* not parse, metadata or created_at is missing, or created_at is malformed
CreatedAtUnrecoverable(f) ==
  /\ f.state = "present"
  /\ \/ f.parse # "ok"
     \/ "metadata" \notin DOMAIN f.doc.kv
     \/ f.doc.kv.metadata.t # "table"
     \/ "created_at" \notin DOMAIN f.doc.kv.metadata.kv
     \/ ~IsTimestamp(f.doc.kv.metadata.kv.created_at)

\* C7 as claimed: on an existing file from which created_at cannot be
\* recovered, save_cache succeeds, writes created_at equal to the save time
\* and leaves a file that load_cache reads.
C7_UnrecoverableCreatedAtResets ==
  (SaveDone /\ last.io = "ok" /\ CreatedAtUnrecoverable(last.file_before)) =>
    /\ last.save_exc = "none"
    /\ StoredTime(file, "created_at") = Ok(last.time)
    /\ load_cache(file, "ok").exc = "none"

\* C8 as claimed: when reading the existing file fails with an I/O error,
\* save_cache falls back to created_at = now and writes the cache.
C8_ReadErrorFallsBack ==
  (SaveDone /\ last.file_before.state = "present" /\ last.io # "ok") =>
    /\ last.save_exc = "none"
    /\ StoredTime(file, "created_at") = Ok(last.time)

\* C9: on a cache file whose content does not parse, load_cache and
\* get_cached_models raise CacheCorruptedError carrying the file path and the
\* parse error, and return no snapshots.
C9_UnparsableRaisesCorrupted ==
  (LoadDone /\ loaded.io = "ok" /\ file.state = "present"
     /\ file.parse # "ok") =>
    /\ loaded.providers.exc = "CacheCorruptedError"
    /\ loaded.providers.cache_path = CacheFile
    /\ loaded.providers.parse_error[Len(loaded.providers.parse_error)]
         = file.parse
    /\ "val" \notin DOMAIN loaded.providers
    /\ loaded.models = loaded.providers

C9_Witness ==
  /\ LoadDone
  /\ loaded.io = "ok"
  /\ file.state = "present"
  /\ file.parse = "UnicodeDecodeError"
  /\ loaded.providers.exc = "CacheCorruptedError"

\* the content d parses but has no providers list, or one with an entry that
\* is no table, lacks a required field or holds a field of the wrong type
StructurallyInvalid(d) ==
  \/ "providers" \notin DOMAIN d.kv
  \/ d.kv.providers \in BadProviders

\* C10 as claimed: on a cache file that parses but is structurally invalid,
\* load_cache raises CacheCorruptedError and nothing else.
C10_InvalidStructureRaisesCorrupted ==
  (LoadDone /\ loaded.io = "ok" /\ file.state = "present"
     /\ file.parse = "ok" /\ StructurallyInvalid(file.doc)) =>
    loaded.providers.exc = "CacheCorruptedError"

\* a load_cache call that directly follows a successful save_cache call and
\* reads the file that call wrote
LoadAfterSave ==
  LoadDone /\ SaveDone /\ last.save_exc = "none" /\ loaded.io = "ok"

\* C11 as claimed: save_cache(S) followed by load_cache() returns snapshots
\* equal to S in provider order, model order and every field, error_message
\* and metadata included.
C11_RoundTrip ==
  LoadAfterSave => loaded.providers = Ok(last.providers)

\* C12: while the cache file is absent, load_cache and get_cached_models raise
\* CacheNotFoundError and return no list, in particular before any save has
\* succeeded.
C12_AbsentRaisesNotFound ==
  (LoadDone /\ file.state = "absent") =>
    /\ loaded.providers = Raise("CacheNotFoundError")
    /\ loaded.models = Raise("CacheNotFoundError")

C12_Witness ==
  /\ LoadDone
  /\ file.state = "absent"
  /\ hist = Fresh
  /\ ~SaveDone
  /\ loaded.models.exc = "CacheNotFoundError"

\* models[from + 1 .. from + Len(ps[i].models)] are the models of provider i
\* and the following providers, in order
RECURSIVE LaidOut(_, _, _, _)
LaidOut(models, ps, i, from) ==
  IF i > Len(ps) THEN Len(models) = from
  ELSE /\ from + Len(ps[i].models) <= Len(models)
       /\ \A j \in 1..Len(ps[i].models) : models[from + j] = ps[i].models[j]
       /\ LaidOut(models, ps, i + 1, from + Len(ps[i].models))

\* C14: get_cached_models returns the models of the loaded snapshots laid out
\* provider after provider in provider order, each provider's models in their
\* order, with no model dropped, duplicated or moved.
C14_ModelsConcatenated ==
  (LoadDone /\ loaded.providers.exc = "none") =>
    /\ loaded.models.exc = "none"
    /\ LaidOut(loaded.models.val, loaded.providers.val, 1, 0)

C14_Witness ==
  /\ LoadDone
  /\ loaded.providers.exc = "none"
  /\ Len(loaded.providers.val) = 2
  /\ Len(loaded.providers.val[1].models) = 2
  /\ Len(loaded.providers.val[2].models) = 1
  /\ loaded.models.exc = "none"
  /\ [i \in 1..3 |-> <<loaded.models.val[i].provider_name,
                       loaded.models.val[i].model_id>>]
       = <<(<<"openai", "m2">>), (<<"openai", "m1">>),
           (<<"anthropic", "m1">>)>>

\* C15: after save_cache was called with zero provider snapshots,
\* get_cached_models returns an empty sequence and raises no error.
C15_ZeroProvidersGiveNoModels ==
  (LoadAfterSave /\ last.providers = <<>>) => loaded.models = Ok(<<>>)

C15_Witness ==
  /\ LoadAfterSave
  /\ last.providers = <<>>
  /\ file.state = "present"
  /\ loaded.providers = Ok(<<>>)
  /\ loaded.models = Ok(<<>>)

\* C13: the read path leaves the cache file as it is: after load_cache,
\* get_cached_models or the list command the file is what it was before
\* (absent, valid or corrupted), so a read that directly follows a read that
\* found the file corrupted finds it corrupted again.
C13_ReadPathLeavesFile ==
  [][loaded'.cmd \in {"load", "list"} =>
       /\ file' = file
       /\ (/\ loaded.cmd \in {"load", "list"}
           /\ loaded.io = "ok"
           /\ loaded'.io = "ok"
           /\ loaded.providers.exc = "CacheCorruptedError")
            => loaded'.providers.exc = "CacheCorruptedError"]_vars

C13_Witness ==
  /\ loaded.cmd = "list"
  /\ loaded.io = "ok"
  /\ file.state = "present"
  /\ file.parse = "ok"
  /\ loaded.providers.exc = "CacheCorruptedError"
  /\ loaded.exit_code = 1

----------------------------------------------------------------------------
(* Properties of the fetcher tasks, under Spec *)

\* fetch_all_models is running
Fetching == pc = "fetching"

\* C16: the tasks fetch_all_models launches depend on the configuration only:
\* openai iff an OpenAI API key is set, google iff a Google API key is set or
\* the Vertex AI flag is true, anthropic always; so some task is launched and
\* none is launched for a provider whose credentials are absent.
C16_ActiveSetFromConfig ==
  (Fetching \/ UpdateDone) =>
    /\ (results["openai"] # NoTask) <=> config.openai_api_key
    /\ (results["google"] # NoTask) <=>
         (config.google_api_key \/ config.google_genai_use_vertexai)
    /\ results["anthropic"] # NoTask
    /\ LaunchedNames # <<>>

C16_Witness ==
  /\ Fetching
  /\ ~config.openai_api_key
  /\ ~config.google_api_key
  /\ config.google_genai_use_vertexai
  /\ LaunchedNames = <<"google", "anthropic">>

\* C17: once fetch_all_models has returned or raised, every task it launched
\* has completed with a snapshot or an exception of its own: none is still
\* running, none was cancelled when a sibling failed.
C17_StructuredJoin ==
  UpdateDone =>
    /\ \A p \in Providers : results[p].tag \in {"none", "snapshot", "exc"}
    /\ Len(completed) = Len(LaunchedNames)
    /\ \A i \in 1..Len(LaunchedNames) :
         \E j \in 1..Len(completed) : completed[j] = LaunchedNames[i]

C17_Witness ==
  /\ UpdateDone
  /\ completed = <<"openai", "google", "anthropic">>
  /\ results["openai"].tag = "exc"
  /\ results["google"].tag = "snapshot"
  /\ results["anthropic"].tag = "snapshot"
  /\ last.fetch.kind = "PartialFetchError"

\* C18 as claimed, under HangSpec: every call of fetch_all_models eventually
\* returns or raises, also when a fetcher hangs.
C18_FetchAllModelsEnds == Fetching ~> (pc = "idle")

\* C19: no exception of a fetcher leaves fetch_all_models as it was raised:
\* fetch_all_models returns, raises PartialFetchError, or raises the
\* aggregate ProviderFetchError for "all".
C19_OnlyAggregateErrors ==
  UpdateDone =>
    \/ last.fetch.kind \in {"return", "PartialFetchError"}
    \/ /\ last.fetch.kind = "ProviderFetchError"
       /\ last.fetch.provider_name = "all"

C19_Witness ==
  /\ UpdateDone
  /\ results["openai"] = [tag |-> "exc", exc |-> "AuthenticationError"]
  /\ FailedNames = <<"openai">>
  /\ last.fetch.kind = "PartialFetchError"
  /\ last.exit_code = 1

\* C20 as claimed: export with a format outside the supported set exits with
\* code 2, reads no cache and writes no output.
C20_UnsupportedFormatExits2 ==
  (loaded.cmd = "export" /\ loaded.format \notin SUPPORTED_EXPORT_FORMATS) =>
    /\ loaded.result.exit_code = 2
    /\ loaded.result.cache_reads = 0
    /\ ~loaded.result.wrote
    /\ ~loaded.result.printed

----------------------------------------------------------------------------
(* Properties of the commands' exit codes *)

\* C21 as claimed, under Spec: when a fetcher raises AuthenticationError
\* during an update, update_command exits with code 2 and writes nothing to
\* the cache.
C21_AuthenticationErrorExits2 ==
  (UpdateDone /\ \E p \in Providers :
                   results[p] = [tag |-> "exc", exc |-> "AuthenticationError"])
    => /\ last.exit_code = 2
       /\ last.save_calls = 0
       /\ file = last.file_before

\* the cache file f is corrupted: its content does not parse or is
\* structurally invalid
Corrupted(f) ==
  /\ f.state = "present"
  /\ \/ f.parse # "ok"
     \/ StructurallyInvalid(f.doc)

\* a list or export command has just ended: its exit code and whether it put
\* out models
ReadCommandDone ==
  \/ loaded.cmd = "list"
  \/ loaded.cmd = "export" /\ loaded.format \in SUPPORTED_EXPORT_FORMATS

ReadExitCode ==
  IF loaded.cmd = "list" THEN loaded.exit_code ELSE loaded.result.exit_code

ReadPutOutModels ==
  IF loaded.cmd = "list"
    THEN loaded.models.exc = "none" /\ loaded.models.val # <<>>
    ELSE loaded.result.printed \/ loaded.result.wrote

\* C22 as claimed, under ReadSpec: list, or export with a supported format,
\* run while the cache file is absent or corrupted exits with code 1 and puts
\* out no models.
C22_ReadOfBadCacheExits1 ==
  (ReadCommandDone /\ (file.state = "absent" \/ Corrupted(file))) =>
    /\ ReadExitCode = 1
    /\ ~ReadPutOutModels

\* C23, under Spec: update_command exits with code 1 whenever fetch_all_models
\* raises PartialFetchError or the all-providers-failed ProviderFetchError,
\* and with code 0 only when the fetch returned and the save completed.
C23_UpdateExitCodes ==
  UpdateDone =>
    /\ last.fetch.kind \in {"PartialFetchError", "ProviderFetchError"}
         => last.exit_code = 1
    /\ last.exit_code = 0 =>
         /\ last.fetch.kind = "return"
         /\ last.save_calls = 1
         /\ last.save_exc = "none"
         /\ file.state = "present"
         /\ file.parse = "ok"

C23_Witness ==
  /\ UpdateDone
  /\ last.fetch.kind = "return"
  /\ last.save_exc = "PermissionError"
  /\ last.exit_code = 1
  /\ file = last.file_before

\* the cache file f is valid and holds at least one model
HoldsModels(f) ==
  /\ f.state = "present"
  /\ get_cached_models(f, "ok").exc = "none"
  /\ get_cached_models(f, "ok").val # <<>>

\* C24 as claimed, under ReadSpec: with a valid cache that holds a model and a
\* valid configuration, export exits with code 0 for every supported format
\* and puts the data on stdout or, with --output, into that file.
C24_ExportSucceeds ==
  (/\ loaded.cmd = "export"
   /\ loaded.format \in SUPPORTED_EXPORT_FORMATS
   /\ loaded.io = "ok"
   /\ loaded.wr = "ok"
   /\ HoldsModels(file)) =>
    /\ loaded.result.exit_code = 0
    /\ loaded.output = "stdout" => loaded.result.printed
    /\ loaded.output = "file" => loaded.result.wrote

\* C25, under ReadSpec: every exporter raises an error on an empty list of
\* models instead of rendering it, and export on a valid cache with zero
\* models exits with code 1 and writes no output.
C25_EmptyModelsRejected ==
  /\ (loaded.cmd = "exporter" /\ loaded.input = <<>>) =>
       loaded.result = Raise("ValueError")
  /\ (/\ loaded.cmd = "export"
      /\ loaded.format \in SUPPORTED_EXPORT_FORMATS
      /\ file.state = "present"
      /\ get_cached_models(file, "ok") = Ok(<<>>)) =>
       /\ loaded.result.exit_code = 1
       /\ ~loaded.result.wrote
       /\ ~loaded.result.printed

C25_Witness ==
  /\ loaded.cmd = "exporter"
  /\ loaded.format = "csv"
  /\ file.state = "present"
  /\ get_cached_models(file, "ok") = Ok(<<>>)
  /\ loaded.input = <<>>
  /\ loaded.result.exc = "ValueError"

\* the configuration c is invalid: retention days not positive, Vertex AI
\* without a credentials path, credentials file missing, or cache directory
\* not writable
InvalidConfig(c) ==
  \/ c.llm_discovery_retention_days < 1
  \/ c.google_genai_use_vertexai /\ c.google_application_credentials = "unset"
  \/ c.google_application_credentials = "missing"
  \/ ~c.cache_dir_writable

\* C26, under Spec: with an invalid configuration no fetcher is launched and
\* the cache file is neither read nor written, and update and list exit with
\* code 1.
C26_InvalidConfigRejected ==
  InvalidConfig(config) =>
    /\ pc = "idle"
    /\ results = NoTasks
    /\ last.cmd \in {"none", "update_rejected"}
    /\ loaded.cmd \in {"none", "list_rejected"}
    /\ last.cmd = "update_rejected" => last.exit_code = 1
    /\ loaded.cmd = "list_rejected" => loaded.exit_code = 1
    /\ file.state = "present" => file.parse # "ok"

C26_Witness ==
  /\ InvalidConfig(config)
  /\ config.google_genai_use_vertexai
  /\ config.google_application_credentials = "unset"
  /\ config.llm_discovery_retention_days = 30
  /\ config.cache_dir_writable
  /\ last.cmd = "update_rejected"
  /\ last.exit_code = 1
  /\ file.state = "absent"

----------------------------------------------------------------------------
(* Properties of the saved content *)

\* the data-model invariant of a ProviderSnapshot
WellFormedSnapshot(p) ==
  /\ (p.error_message # None) <=> (p.fetch_status = "failure")
  /\ p.fetch_status = "failure" => p.models = <<>>

\* C27 as claimed, under CacheSpec: every snapshot load_cache returns has an
\* error message iff its status is failure, and no models if its status is
\* failure.
C27_LoadedSnapshotsWellFormed ==
  (LoadDone /\ loaded.providers.exc = "none") =>
    \A i \in 1..Len(loaded.providers.val) :
      WellFormedSnapshot(loaded.providers.val[i])

\* the providers of a list of snapshots: name, status, time and models of each
ProvidersOf(ps) ==
  [i \in 1..Len(ps) |->
     [provider_name |-> ps[i].provider_name,
      fetch_status |-> ps[i].fetch_status,
      fetched_at |-> ps[i].fetched_at,
      models |-> ps[i].models]]

\* C28, under CacheSpec: after a save_cache(S) that returns, on any prior file,
\* load_cache returns exactly the providers of S with their models, the file
\* holds nothing else of the previous cache, and created_at alone is carried
\* over from it when it can be read there.
C28_SaveReplacesProviders ==
  LoadAfterSave =>
    /\ loaded.providers.exc = "none"
    /\ ProvidersOf(loaded.providers.val) = ProvidersOf(last.providers)
    /\ DOMAIN file.doc.kv = {"metadata", "providers"}
    /\ DOMAIN file.doc.kv.metadata.kv
         = {"version", "created_at", "last_updated"}
    /\ Len(file.doc.kv.providers.items) = Len(last.providers)
    /\ StoredTime(file, "last_updated") = Ok(last.time)
    /\ StoredTime(file, "created_at") =
         IF last.file_before.state = "present"
              /\ ~CreatedAtUnrecoverable(last.file_before)
           THEN StoredTime(last.file_before, "created_at")
           ELSE Ok(last.time)

C28_Witness ==
  /\ LoadAfterSave
  /\ OldEntries(last.file_before) # <<>>
  /\ OldEntries(last.file_before)[1] = Table(GoodEntry)
  /\ last.providers # <<>>
  /\ last.providers[1].provider_name = "anthropic"
  /\ Len(loaded.providers.val) = 1
  /\ loaded.providers.val[1].provider_name = "anthropic"

\* C29 as claimed, under WriteSpec: after a save_cache call, returned or
\* raised, the cache file holds the complete previous content or the complete
\* new content.
C29_SaveIsAtomic ==
  SaveDone =>
    \/ file = last.file_before
    \/ /\ file.state = "present"
       /\ file.parse = "ok"
       /\ DOMAIN file.doc.kv = {"metadata", "providers"}
       /\ load_cache(file, "ok").exc = "none"
       /\ ProvidersOf(load_cache(file, "ok").val) = ProvidersOf(last.providers)

\* C30, under CacheSpec: in every cache file save_cache has written,
\* created_at is at most last_updated.
C30_CreatedBeforeUpdated ==
  (SaveDone /\ last.save_exc = "none") =>
    /\ StoredTime(file, "created_at").exc = "none"
    /\ StoredTime(file, "last_updated").exc = "none"
    /\ StoredTime(file, "created_at").val
         <= StoredTime(file, "last_updated").val

C30_Witness ==
  /\ SaveDone
  /\ last.save_exc = "none"
  /\ ~hist.pristine
  /\ last.file_before.state = "present"
  /\ StoredTime(file, "created_at").val < StoredTime(file, "last_updated").val

====
